---- MODULE Spec2Model ----
(***************************************************************************)
(* A model of the in-memory cache engine of lib/index.js: the Connection   *)
(* object (settings, cache, byteSize), its operations start, stop,         *)
(* isReady, get, set, drop, and the helpers MemoryCacheEntry, dropKey and  *)
(* flushExpiredCacheItems.  Date.now() is the variable now.                *)
(***************************************************************************)
EXTENDS Integers, Sequences, FiniteSets, TLC

VARIABLES
    settings,   \* this.settings: [maxByteSize, allowMixedContent]
    cache,      \* this.cache: null, or segment -> id -> MemoryCacheEntry
    byteSize,   \* this.byteSize, a number once byteSizeDefined
    byteSizeDefined, \* FALSE while this.byteSize is still undefined
    now,        \* the value Date.now() returns
    lifecycle,  \* history: "Stopped" / "Started" by the last start or stop
    last,       \* history: the last call, its arguments and its outcome
    pending,    \* the callbacks process.nextTick holds: [call, hops]
    calls,      \* history: the number of calls given a callback so far
    fired       \* history: call -> the times its callback has been invoked

vars == <<settings, cache, byteSize, byteSizeDefined, now, lifecycle, last,
          pending, calls, fired>>

-----------------------------------------------------------------------------
(* Bounds of the model *)

\* the clock runs from 0 to MaxTime
MaxTime == 2

\* the non-zero byte budget a Connection is constructed with
Budget == 298

\* no set is issued that would take the counter above MaxCounter
MaxCounter == 600

\* the calls with a callback issued while callbacks are kept pending
MaxCalls == 3

-----------------------------------------------------------------------------
(* Program constants *)

\* set rejects a ttl greater than this
MaxTtl == 2147483647

\* "Approximate cache entry size without value"
EntryOverhead == 144

-----------------------------------------------------------------------------
(* Keys, values and ttls the callers pass *)

Keys ==
    { [segment |-> "s", id |-> "a"],
      [segment |-> "t", id |-> "a"] }

\* JavaScript values: the number 1, a one-byte Buffer, and an object that
\* refers to itself
Values == {"1", "Buffer[7]", "cyclic"}

\* A ttl argument is the number ms + extra, written in two parts because
\* 2147483648 is not an integer TLC represents: 0, 1, 2147483647, 2147483648
Ttls ==
    { [ms |-> 0, extra |-> 0], [ms |-> 1, extra |-> 0],
      [ms |-> MaxTtl, extra |-> 0], [ms |-> MaxTtl, extra |-> 1] }

NoTtl == [ms |-> 0, extra |-> 0]

\* ttl > 2147483647
\* a guard that also refuses ttl = 2147483647
TtlOverLimit_OffByOne(ttl) == ttl.ms >= MaxTtl - ttl.extra

TtlOverLimit(ttl) == ttl.ms > MaxTtl - ttl.extra

\* the number a ttl argument within the limit stands for
TtlNumber(ttl) == ttl.ms + ttl.extra

-----------------------------------------------------------------------------
(* Entry encoding *)

IsBuffer(value) == value = "Buffer[7]"

\* JSON.stringify: the text, or "throws" for a cyclic structure
JSONstringify(value) ==
    CASE value = "1" -> "1"
      [] value = "Buffer[7]" -> "{\"type\":\"Buffer\",\"data\":[7]}"
      [] OTHER -> "throws"

\* internals.parseJSON on a text JSON.stringify produced
parseJSON(json) ==
    CASE json = "1" -> "1"
      [] json = "{\"type\":\"Buffer\",\"data\":[7]}" -> "Object{type:Buffer,data:[7]}"
      [] OTHER -> "Error"

\* Buffer.byteLength of an ASCII string
ByteLength(str) == Len(str)

\* whether new MemoryCacheEntry(key, value, ttl, allowMixedContent) throws
EntryThrows(value, allowMixedContent) ==
    /\ ~(allowMixedContent /\ IsBuffer(value))
    /\ JSONstringify(value) = "throws"

\* the entry new MemoryCacheEntry(...) builds when Date.now() is t, ttl a
\* number.  expireTime = stored + ttl is not kept as a field: with
\* ttl = 2147483647 it is no integer TLC represents, while JavaScript computes
\* it exactly; ClockAfterExpire and ClockBeforeExpire compare it with a clock
MemoryCacheEntry(key, value, ttl, allowMixedContent, t) ==
    LET mixed == allowMixedContent /\ IsBuffer(value)
        item == IF mixed THEN [buffer |-> TRUE, data |-> <<7>>]
                         ELSE [buffer |-> FALSE, data |-> JSONstringify(value)]
        valueByteSize == IF mixed THEN Len(item.data) ELSE ByteLength(item.data)
    IN  [ item |-> item,
          stored |-> t,
          ttl |-> ttl,
          byteSize |-> EntryOverhead + valueByteSize
                         + ByteLength(key.segment) + ByteLength(key.id) ]

\* t > entry.expireTime and t < entry.expireTime, with stored moved to the
\* left-hand side
ClockAfterExpire(t, entry) == t - entry.stored > entry.ttl
ClockBeforeExpire(t, entry) == t - entry.stored < entry.ttl

-----------------------------------------------------------------------------
(* The store *)

NoSegments == [s \in {} |-> [i \in {} |-> 0]]

CacheNull == [null |-> TRUE, segments |-> NoSegments]

EmptyCache == [null |-> FALSE, segments |-> NoSegments]

HasSegment(segments, name) == name \in DOMAIN segments

HasEntry(segments, key) ==
    /\ HasSegment(segments, key.segment)
    /\ key.id \in DOMAIN segments[key.segment]

EntryOf(segments, key) == segments[key.segment][key.id]

\* the keys that have an entry in the store
StoredKeys(segments) ==
    UNION { { [segment |-> s, id |-> i] : i \in DOMAIN segments[s] }
            : s \in DOMAIN segments }

-----------------------------------------------------------------------------
(* dropKey and flushExpiredCacheItems, as functions of the store and the   *)
(* counter; each returns the pair [segments, byteSize] it leaves           *)

\* a delete that leaves the entry in its segment
DeleteId_KeepsEntry(segments, key) == segments

\* delete segment[key.id]
DeleteId(segments, key) ==
    [ s \in DOMAIN segments |->
        IF s = key.segment
        THEN [ i \in DOMAIN segments[s] \ {key.id} |-> segments[s][i] ]
        ELSE segments[s] ]

\* a dropKey that deletes the entry and leaves the counter alone
dropKey_KeepsCounter(segments, bs, key) ==
    IF HasSegment(segments, key.segment)
    THEN [ segments |-> DeleteId(segments, key), byteSize |-> bs ]
    ELSE [ segments |-> segments, byteSize |-> bs ]

dropKey(segments, bs, key) ==
    IF HasSegment(segments, key.segment)
    THEN [ segments |-> DeleteId(segments, key),
           byteSize |-> IF HasEntry(segments, key)
                        THEN bs - EntryOf(segments, key).byteSize
                        ELSE bs ]
    ELSE [ segments |-> segments, byteSize |-> bs ]

\* a sweep that removes every entry it visits
SweepExpired_All(t, entry) == t >= entry.stored

\* the test of the sweep: Date.now() > expireTime
SweepExpired(t, entry) == ClockAfterExpire(t, entry)

RECURSIVE FlushKeys(_, _, _, _)
FlushKeys(segments, bs, keys, t) ==
    IF keys = {} THEN [ segments |-> segments, byteSize |-> bs ]
    ELSE LET k == CHOOSE x \in keys : TRUE
             d == IF SweepExpired(t, EntryOf(segments, k))
                  THEN dropKey(segments, bs, k)
                  ELSE [ segments |-> segments, byteSize |-> bs ]
         IN  FlushKeys(d.segments, d.byteSize, keys \ {k}, t)

\* the sweep; set calls it with the cache non-null
flushExpiredCacheItems(segments, bs, t) ==
    FlushKeys(segments, bs, StoredKeys(segments), t)

-----------------------------------------------------------------------------
(* What a call reports to its callback *)

NotStarted == "Connection not started"
InvalidTtl == "Invalid ttl (greater than 2147483647)"
CircularJSON == "Converting circular structure to JSON"
BadContent == "Bad value content"
LimitReached == "Unable to store cache entry, cache size limit reached."

NoKey == [segment |-> "", id |-> ""]
NoOut == [item |-> "", stored |-> 0, ttl |-> 0]

\* op: the operation; key: its key; value, ttl: what a successful set was
\* given; at: Date.now() when a successful set began; res: "ok", "null" (get found no value), "value" or "error";
\* err: the error message; out: what get passed to its callback; freed: the
\* bytes get or drop took off the counter, and for stop 1 when it discarded
\* entries
Call(op, key, value, ttl, res, err, out, freed) ==
    [ op |-> op, key |-> key, value |-> value, ttl |-> ttl, freed |-> freed,
      at |-> IF op = "set" /\ res = "ok" THEN now ELSE 0,
      res |-> res, err |-> err, out |-> out ]

-----------------------------------------------------------------------------
(* Construction *)

\* new MemoryCache(options): maxByteSize 0 means no budget
Init ==
    /\ settings \in [ maxByteSize : {0, Budget}, allowMixedContent : BOOLEAN ]
    /\ cache = CacheNull
    /\ byteSize = 0
    /\ byteSizeDefined = FALSE
    /\ now = 0
    /\ lifecycle = "Stopped"
    /\ last = Call("new", NoKey, "", NoTtl, "ok", "", NoOut, 0)
    /\ pending = {}
    /\ calls = 0
    /\ fired = <<>>

-----------------------------------------------------------------------------
(* Lifecycle *)

isReady == ~cache.null

\* a start that allocates a new store whether or not one exists
start_AlwaysResets ==
    /\ cache' = EmptyCache
    /\ byteSize' = 0
    /\ byteSizeDefined' = TRUE
    /\ lifecycle' = "Started"
    /\ last' = Call("start", NoKey, "", NoTtl, "ok", "", NoOut, 0)
    /\ UNCHANGED <<settings, now>>

start ==
    /\ IF cache.null
       THEN /\ cache' = EmptyCache
            /\ byteSize' = 0
            /\ byteSizeDefined' = TRUE
       ELSE UNCHANGED <<cache, byteSize, byteSizeDefined>>
    /\ lifecycle' = "Started"
    /\ last' = Call("start", NoKey, "", NoTtl, "ok", "", NoOut, 0)
    /\ UNCHANGED <<settings, now>>

\* a stop that resets the counter and keeps the cache
stop_KeepsCache ==
    /\ byteSize' = 0
    /\ byteSizeDefined' = TRUE
    /\ lifecycle' = "Stopped"
    /\ last' = Call("stop", NoKey, "", NoTtl, "ok", "", NoOut,
                    IF StoredKeys(cache.segments) = {} THEN 0 ELSE 1)
    /\ UNCHANGED <<settings, cache, now>>

\* a stop that discards the store and keeps the counter
stop_KeepsCounter ==
    /\ cache' = CacheNull
    /\ byteSizeDefined' = TRUE
    /\ lifecycle' = "Stopped"
    /\ last' = Call("stop", NoKey, "", NoTtl, "ok", "", NoOut,
                    IF StoredKeys(cache.segments) = {} THEN 0 ELSE 1)
    /\ UNCHANGED <<settings, byteSize, now>>

\* the history records whether stop discarded any entry
stop ==
    /\ cache' = CacheNull
    /\ byteSize' = 0
    /\ byteSizeDefined' = TRUE
    /\ lifecycle' = "Stopped"
    /\ last' = Call("stop", NoKey, "", NoTtl, "ok", "", NoOut,
                    IF StoredKeys(cache.segments) = {} THEN 0 ELSE 1)
    /\ UNCHANGED <<settings, now>>

\* a millisecond passes between two calls
Tick ==
    /\ now < MaxTime
    /\ now' = now + 1
    /\ UNCHANGED <<settings, cache, byteSize, byteSizeDefined, lifecycle, last>>

-----------------------------------------------------------------------------
(* drop *)

drop(key) ==
    /\ IF cache.null
       THEN /\ last' = Call("drop", key, "", NoTtl, "error", NotStarted, NoOut, 0)
            /\ UNCHANGED <<cache, byteSize>>
       ELSE LET d == dropKey(cache.segments, byteSize, key)
            IN  /\ cache' = [cache EXCEPT !.segments = d.segments]
                /\ byteSize' = d.byteSize
                /\ last' = Call("drop", key, "", NoTtl, "ok", "", NoOut,
                                byteSize - d.byteSize)
    /\ UNCHANGED <<settings, byteSizeDefined, now, lifecycle>>

-----------------------------------------------------------------------------
(* get *)

\* a get that takes every stored entry for expired
ReadExpired_Always(t, envelope) == t >= envelope.stored

\* the test of get: Date.now() > envelope.expireTime
ReadExpired(t, envelope) == ClockAfterExpire(t, envelope)

\* the value get hands back for a stored item
ItemValue(item) ==
    IF item.buffer THEN "Buffer[7]" ELSE parseJSON(item.data)

get(key) ==
    /\ IF cache.null
       THEN /\ last' = Call("get", key, "", NoTtl, "error", NotStarted, NoOut, 0)
            /\ UNCHANGED <<cache, byteSize>>
       ELSE IF ~HasEntry(cache.segments, key)
       THEN /\ last' = Call("get", key, "", NoTtl, "null", "", NoOut, 0)
            /\ UNCHANGED <<cache, byteSize>>
       ELSE LET envelope == EntryOf(cache.segments, key)
                d == dropKey(cache.segments, byteSize, key)
            IN  IF ReadExpired(now, envelope)
                THEN /\ cache' = [cache EXCEPT !.segments = d.segments]
                     /\ byteSize' = d.byteSize
                     /\ last' = Call("get", key, "", NoTtl, "null", "", NoOut,
                                     byteSize - d.byteSize)
                ELSE IF ItemValue(envelope.item) = "Error"
                THEN /\ last' = Call("get", key, "", NoTtl, "error", BadContent, NoOut, 0)
                     /\ UNCHANGED <<cache, byteSize>>
                ELSE /\ last' = Call("get", key, "", NoTtl, "value", "",
                                     [ item |-> ItemValue(envelope.item),
                                       stored |-> envelope.stored,
                                       ttl |-> envelope.ttl ], 0)
                     /\ UNCHANGED <<cache, byteSize>>
    /\ UNCHANGED <<settings, byteSizeDefined, now, lifecycle>>

-----------------------------------------------------------------------------
(* set *)

\* the test of set on the entry it replaces: Date.now() < cachedItem.expireTime
StillLive(t, cachedItem) == ClockBeforeExpire(t, cachedItem)

\* this.byteSize + envelope.byteSize > this.settings.maxByteSize
OverBudget(bs, envelope) == bs + envelope.byteSize > settings.maxByteSize

\* this.cache[key.segment] = this.cache[key.segment] || new MemoryCacheSegment()
WithSegment(segments, name) ==
    IF HasSegment(segments, name) THEN segments
    ELSE [ s \in DOMAIN segments \cup {name} |->
             IF s = name THEN [i \in {} |-> 0] ELSE segments[s] ]

\* an insertion that keeps the entry already under the key
Insert_KeepsOld(segments, key, envelope) ==
    [ s \in DOMAIN segments |->
        IF s = key.segment
        THEN [ i \in DOMAIN segments[s] \cup {key.id} |->
                 IF i \in DOMAIN segments[s] THEN segments[s][i] ELSE envelope ]
        ELSE segments[s] ]

\* segment[key.id] = envelope
Insert(segments, key, envelope) ==
    [ s \in DOMAIN segments |->
        IF s = key.segment
        THEN [ i \in DOMAIN segments[s] \cup {key.id} |->
                 IF i = key.id THEN envelope ELSE segments[s][i] ]
        ELSE segments[s] ]

\* the counter after set has looked at the entry it replaces, at clock t
AfterReplaced(segments, bs, key, t) ==
    IF HasEntry(segments, key) /\ StillLive(t, EntryOf(segments, key))
    THEN bs - EntryOf(segments, key).byteSize
    ELSE bs

\* the store and the counter after the budget check's sweep, at clock t
AfterPressure(segments, bs, envelope, t) ==
    IF settings.maxByteSize # 0 /\ OverBudget(bs, envelope)
    THEN flushExpiredCacheItems(segments, bs, t)
    ELSE [ segments |-> segments, byteSize |-> bs ]

\* a set that stores the entry whatever the second test of the budget says
Rejected_NeverGivesUp(bs, envelope) == FALSE

\* whether set gives up after the sweep
Rejected(bs, envelope) ==
    settings.maxByteSize # 0 /\ OverBudget(bs, envelope)

\* set from the creation of the segment on: the clock reads t1 at the test
\* of the replaced entry and t2 in the sweep
Store(segments, bs, key, envelope, t1, t2) ==
    LET seg1 == WithSegment(segments, key.segment)
        bs1 == AfterReplaced(seg1, bs, key, t1)
        f == AfterPressure(seg1, bs1, envelope, t2)
    IN  IF Rejected(f.byteSize, envelope)
        THEN [ segments |-> f.segments, byteSize |-> f.byteSize, stored |-> FALSE ]
        ELSE [ segments |-> Insert(f.segments, key, envelope),
               byteSize |-> f.byteSize + envelope.byteSize,
               stored |-> TRUE ]

\* d1, d2: the milliseconds that pass between the construction of the entry
\* and the test of the replaced entry, and between that test and the sweep
set(key, value, ttl, d1, d2) ==
    /\ now + d1 + d2 <= MaxTime
    /\ IF cache.null
       THEN /\ d1 = 0 /\ d2 = 0
            /\ last' = Call("set", key, "", NoTtl, "error", NotStarted, NoOut, 0)
            /\ UNCHANGED <<cache, byteSize, now>>
       ELSE IF TtlOverLimit(ttl)
       THEN /\ d1 = 0 /\ d2 = 0
            /\ last' = Call("set", key, "", NoTtl, "error", InvalidTtl, NoOut, 0)
            /\ UNCHANGED <<cache, byteSize, now>>
       ELSE IF EntryThrows(value, settings.allowMixedContent)
       THEN /\ d1 = 0 /\ d2 = 0
            /\ last' = Call("set", key, "", NoTtl, "error", CircularJSON, NoOut, 0)
            /\ UNCHANGED <<cache, byteSize, now>>
       ELSE LET envelope == MemoryCacheEntry(key, value, TtlNumber(ttl),
                                             settings.allowMixedContent, now)
                r == Store(cache.segments, byteSize, key, envelope,
                           now + d1, now + d1 + d2)
            IN  /\ r.byteSize <= MaxCounter
                /\ cache' = [cache EXCEPT !.segments = r.segments]
                /\ byteSize' = r.byteSize
                /\ now' = now + d1 + d2
                /\ last' = IF r.stored
                           THEN Call("set", key, value, ttl, "ok", "", NoOut, 0)
                           ELSE Call("set", key, "", NoTtl, "error", LimitReached, NoOut, 0)
    /\ UNCHANGED <<settings, byteSizeDefined, lifecycle>>

-----------------------------------------------------------------------------
(* Callbacks.  Every operation but stop wraps its callback with            *)
(* Hoek.nextTick: calling the wrapper hands the callback and its arguments *)
(* to process.nextTick, which invokes it after the call has returned.  The *)
(* arguments are those recorded in last.                                   *)

\* the caller waits for the callback before it does anything else, or the
\* operation has no callback
Awaited == UNCHANGED <<pending, calls, fired>>

\* callback = Hoek.nextTick(callback), then callback(...): the callback runs
\* after hops turns of the nextTick queue
nextTick(hops) ==
    /\ calls < MaxCalls
    /\ calls' = calls + 1
    /\ pending' = pending \cup { [call |-> calls + 1, hops |-> hops] }
    /\ fired' = [ c \in 1 .. calls + 1 |-> IF c <= calls THEN fired[c] ELSE 0 ]

\* get on an expired entry hands drop a function that calls get's wrapped
\* callback: drop defers that function, which then defers the callback
GetHops(key) ==
    IF /\ ~cache.null
       /\ HasEntry(cache.segments, key)
       /\ ReadExpired(now, EntryOf(cache.segments, key))
    THEN 2 ELSE 1

\* a turn that invokes the callback and leaves it in the queue
Fire_KeepsPending(thunk) ==
    /\ thunk \in pending
    /\ fired' = [fired EXCEPT ![thunk.call] = @ + 1]
    /\ fired'[thunk.call] <= 2
    /\ UNCHANGED <<settings, cache, byteSize, byteSizeDefined, now, lifecycle, last,
                   pending, calls>>

\* one turn of the nextTick queue for one pending function
Fire(thunk) ==
    /\ thunk \in pending
    /\ IF thunk.hops > 1
       THEN /\ pending' = (pending \ {thunk}) \cup { [thunk EXCEPT !.hops = @ - 1] }
            /\ UNCHANGED fired
       ELSE /\ pending' = pending \ {thunk}
            /\ fired' = [fired EXCEPT ![thunk.call] = @ + 1]
    /\ UNCHANGED <<settings, cache, byteSize, byteSizeDefined, now, lifecycle, last, calls>>

-----------------------------------------------------------------------------
(* The specification: a caller that waits for each callback *)

Next ==
    \/ start /\ Awaited
    \/ stop /\ Awaited
    \/ Tick /\ Awaited
    \/ \E key \in Keys : get(key) /\ Awaited
    \/ \E key \in Keys : drop(key) /\ Awaited
    \/ \E key \in Keys, value \in Values, ttl \in Ttls, d1 \in {0, 1}, d2 \in {0, 1} :
          set(key, value, ttl, d1, d2) /\ Awaited

Spec == Init /\ [][Next]_vars

-----------------------------------------------------------------------------
(* The specification of a caller that issues calls without waiting: the    *)
(* callbacks stay pending and are invoked in any order; process.nextTick   *)
(* invokes every function it was given                                     *)

FireSome == \E thunk \in pending : Fire(thunk)

NextDeferred ==
    \/ start /\ nextTick(1)
    \/ stop /\ Awaited
    \/ Tick /\ Awaited
    \/ \E key \in Keys : get(key) /\ nextTick(GetHops(key))
    \/ \E key \in Keys : drop(key) /\ nextTick(1)
    \/ \E key \in Keys, value \in Values, ttl \in Ttls :
          set(key, value, ttl, 0, 0) /\ nextTick(1)
    \/ FireSome

\* a Connection constructed with a byte budget and without mixed content
InitDeferred ==
    /\ Init
    /\ settings = [maxByteSize |-> Budget, allowMixedContent |-> FALSE]

SpecDeferred == InitDeferred /\ [][NextDeferred]_vars /\ WF_vars(FireSome)

-----------------------------------------------------------------------------
(* Properties *)

Started == ~cache.null

\* a call of set with these arguments is this step
SetStep(key, value, ttl) == \E d1 \in {0, 1}, d2 \in {0, 1} : set(key, value, ttl, d1, d2)

\* set gets as far as constructing the entry
Storable(value, ttl) ==
    /\ ~TtlOverLimit(ttl)
    /\ ~EntryThrows(value, settings.allowMixedContent)

NewEntry(key, value, ttl) ==
    MemoryCacheEntry(key, value, TtlNumber(ttl), settings.allowMixedContent, now)

RECURSIVE SumByteSize(_, _)
SumByteSize(segments, keys) ==
    IF keys = {} THEN 0
    ELSE LET k == CHOOSE x \in keys : TRUE
         IN  EntryOf(segments, k).byteSize + SumByteSize(segments, keys \ {k})

\* the sum of byteSize over the entries stored under keys
BytesOf(segments, keys) ==
    SumByteSize(segments, { k \in keys : HasEntry(segments, k) })

\* the keys whose stored entry has expireTime < t
PastExpiry(segments, t) ==
    { k \in Keys : HasEntry(segments, k) /\ ClockAfterExpire(t, EntryOf(segments, k)) }

\* the entry under key is the one that was there, or is gone
NotReplaced(key) ==
    HasEntry(cache'.segments, key) =>
        /\ HasEntry(cache.segments, key)
        /\ EntryOf(cache'.segments, key) = EntryOf(cache.segments, key)

\* C1: while the engine is started, byteSize equals the sum of byteSize over
\* all entries physically in the store, expired ones included
C1_CounterEqualsStore ==
    Started => byteSize = BytesOf(cache.segments, Keys)

\* C2: with a budget B > 0, the entries held in the store never add up to
\* more than B
C2_StoreWithinBudget ==
    (Started /\ settings.maxByteSize > 0) =>
        BytesOf(cache.segments, Keys) <= settings.maxByteSize

\* the counter set compares with the budget after its sweep, for a set of an
\* entry whose replaced entry is tested at clock t1 and whose sweep runs at t2
CounterAfterSweep(key, t1, t2) ==
    LET replaced == IF HasEntry(cache.segments, key)
                       /\ ClockBeforeExpire(t1, EntryOf(cache.segments, key))
                    THEN EntryOf(cache.segments, key).byteSize
                    ELSE 0
    IN  byteSize - replaced - BytesOf(cache.segments, PastExpiry(cache.segments, t2))

\* C3: with a budget B > 0, a set whose entry takes the counter above B, and
\* still does after one sweep of the expired entries, fails with "cache size
\* limit reached" and does not store the entry; and the counter never exceeds B
C3_OverBudgetSetFails ==
    /\ [](settings.maxByteSize > 0 => byteSize <= settings.maxByteSize)
    /\ [][ (Started /\ settings.maxByteSize > 0 /\ last'.op = "set") =>
            \A value \in Values, ttl \in Ttls, d1 \in {0, 1}, d2 \in {0, 1} :
              ( /\ now' = now + d1 + d2
                /\ Storable(value, ttl)
                /\ CounterAfterSweep(last'.key, now + d1, now + d1 + d2)
                     + NewEntry(last'.key, value, ttl).byteSize > settings.maxByteSize
                /\ set(last'.key, value, ttl, d1, d2) )
              => ( /\ last'.res = "error" /\ last'.err = LimitReached
                   /\ NotReplaced(last'.key) ) ]_vars

\* a set has just failed on the budget, the store holding entries the counter
\* accounts for exactly
C3_Witness ==
    /\ last.op = "set" /\ last.err = LimitReached
    /\ settings.maxByteSize > 0
    /\ byteSize = BytesOf(cache.segments, Keys)
    /\ byteSize > 0

\* the keys other than key whose stored entry has t < expireTime
LiveOthers(segments, key, t) ==
    { k \in Keys \ {key} :
        HasEntry(segments, k) /\ ClockBeforeExpire(t, EntryOf(segments, k)) }

\* C4: with a budget B > 0, a set on key k with a valid ttl and an encodable
\* value succeeds whenever the new entry's byteSize plus the byteSize of the
\* not-yet-expired entries under the other keys is at most B
C4_SetSucceedsWhenRoom ==
    [][ (Started /\ settings.maxByteSize > 0 /\ last'.op = "set") =>
        \A value \in Values, ttl \in Ttls, d1 \in {0, 1}, d2 \in {0, 1} :
          ( /\ now' = now + d1 + d2
            /\ Storable(value, ttl)
            /\ NewEntry(last'.key, value, ttl).byteSize
                 + BytesOf(cache.segments, LiveOthers(cache.segments, last'.key, now))
                 <= settings.maxByteSize
            /\ set(last'.key, value, ttl, d1, d2) )
          => last'.res = "ok" ]_vars

\* what the counter holds for key: the counter less the other keys' entries
CounterShare(segments, bs, key) == bs - BytesOf(segments, Keys \ {key})

\* C5: a successful set on k followed, after any time, by a successful set on
\* k leaves one entry for k, and the counter holds only the second entry's
\* byteSize for k, not the first's plus the second's
C5_OverwriteCountsOnce ==
    [][ ( /\ last.op = "set" /\ last.res = "ok"
          /\ HasEntry(cache.segments, last.key)
          /\ CounterShare(cache.segments, byteSize, last.key)
               = EntryOf(cache.segments, last.key).byteSize
          /\ last'.op = "set" /\ last'.res = "ok" /\ last'.key = last.key
          /\ \E d1 \in {0, 1}, d2 \in {0, 1} :
               set(last'.key, last'.value, last'.ttl, d1, d2) )
        => ( /\ HasEntry(cache'.segments, last.key)
             /\ CounterShare(cache'.segments, byteSize', last.key)
                  = EntryOf(cache'.segments, last.key).byteSize ) ]_vars

\* the keys that have an entry before the step and none after it
Removed == { k \in Keys : HasEntry(cache.segments, k) /\ ~HasEntry(cache'.segments, k) }

\* C6: a set that fails leaves the counter and every not-yet-expired entry as
\* they were, but for the expired entries its one sweep removes, with their
\* bytes
C6_FailedSetChangesNothing ==
    [][ (last'.op = "set" /\ last'.res = "error") =>
        /\ byteSize' = byteSize - BytesOf(cache.segments, Removed)
        /\ \A k \in Keys :
             (HasEntry(cache.segments, k)
                /\ ~ClockAfterExpire(now', EntryOf(cache.segments, k)))
             => ( /\ HasEntry(cache'.segments, k)
                  /\ EntryOf(cache'.segments, k) = EntryOf(cache.segments, k) ) ]_vars

\* C7: get on the key of a stored entry with expireTime <= now returns no
\* value, the instant now = expireTime included
C7_ExpiredIsAbsent ==
    [][ (Started /\ last'.op = "get") =>
        ( ( /\ HasEntry(cache.segments, last'.key)
            /\ ~ClockBeforeExpire(now, EntryOf(cache.segments, last'.key))
            /\ get(last'.key) )
          => last'.res = "null" ) ]_vars

\* C8: get on an entry set with ttl t returns the value while fewer than t ms
\* have elapsed since it was stored; once more than t ms have elapsed it
\* returns no value (not an error), removes the entry from the store and
\* takes exactly the entry's byteSize off the counter
C8_ExpiryOnRead ==
    [][ (Started /\ last'.op = "get") =>
        ( (HasEntry(cache.segments, last'.key) /\ get(last'.key)) =>
            LET e == EntryOf(cache.segments, last'.key)
            IN  /\ (now - e.stored < e.ttl) =>
                      /\ last'.res = "value"
                      /\ last'.out = [ item |-> ItemValue(e.item),
                                        stored |-> e.stored, ttl |-> e.ttl ]
                      /\ UNCHANGED <<cache, byteSize>>
                /\ (now - e.stored > e.ttl) =>
                      /\ last'.res = "null"
                      /\ ~HasEntry(cache'.segments, last'.key)
                      /\ byteSize' = byteSize - e.byteSize ) ]_vars

\* a get has just found an expired entry and removed it
C8_Witness ==
    /\ last.op = "get" /\ last.res = "null" /\ last.freed > 0
    /\ ~HasEntry(cache.segments, last.key)

\* the value get is to return for a value given to set: a Buffer comes back
\* byte for byte when mixed content is allowed, and as the plain object its
\* JSON text describes when it is not
Canonical(value, allowMixedContent) ==
    CASE value = "1" -> "1"
      [] value = "Buffer[7]" /\ allowMixedContent -> "Buffer[7]"
      [] value = "Buffer[7]" /\ ~allowMixedContent -> "Object{type:Buffer,data:[7]}"
      [] OTHER -> "none"

\* a get on the key of the last call, a successful set, in the millisecond
\* that set began in
GetRightAfterSet ==
    /\ last.op = "set" /\ last.res = "ok" /\ now = last.at
    /\ last'.op = "get" /\ last'.key = last.key
    /\ get(last.key)

\* C9, as stated: a successful set followed at once by get on the same key
\* returns the value given to set, the time it was stored and its ttl
C9_RoundTripSameValue ==
    [][ GetRightAfterSet =>
        /\ last'.res = "value"
        /\ last'.out = [ item |-> last.value, stored |-> last.at,
                          ttl |-> TtlNumber(last.ttl) ] ]_vars

\* C9, amended: a successful set followed at once by get on the same key
\* returns the most recently set value as its stored encoding decodes (the
\* JSON round trip of the value, or the Buffer byte for byte when mixed
\* content is allowed), the time that entry was stored and the ttl given
C9_RoundTrip ==
    [][ GetRightAfterSet =>
        /\ last'.res = "value"
        /\ last'.out = [ item |-> Canonical(last.value, settings.allowMixedContent),
                          stored |-> last.at,
                          ttl |-> TtlNumber(last.ttl) ] ]_vars

\* a get has just returned, in the millisecond it was stored, an entry set
\* with ttl 0 after the first millisecond, its Buffer decoded as a plain object
C9_Witness ==
    /\ last.op = "get" /\ last.res = "value"
    /\ last.out.stored = now /\ last.out.stored > 0
    /\ last.out.item = "Object{type:Buffer,data:[7]}"
    /\ last.out.ttl = 0

\* a call of get, set or drop is this step
DataCall ==
    \/ \E key \in Keys : get(key) \/ drop(key)
    \/ \E key \in Keys, value \in Values, ttl \in Ttls : set(key, value, ttl, 0, 0)

\* C10: isReady() is true exactly between a start and the next stop, and
\* get, set and drop called while stopped fail with "Connection not started"
\* and change nothing
C10_LifecycleGating ==
    /\ [](isReady <=> lifecycle = "Started")
    /\ [][ (lifecycle = "Stopped" /\ last'.op \in {"get", "set", "drop"} /\ DataCall) =>
            /\ last'.res = "error" /\ last'.err = NotStarted
            /\ UNCHANGED <<settings, cache, byteSize, byteSizeDefined, now, lifecycle>> ]_vars

\* a set has just been refused after a stop that followed a start
C10_Witness ==
    /\ last.op = "set" /\ last.err = NotStarted
    /\ lifecycle = "Stopped" /\ ~isReady
    /\ byteSizeDefined

\* C11: start called while started succeeds and leaves the store and the
\* counter as they were
C11_StartIdempotent ==
    [][ (isReady /\ last'.op = "start" /\ start) =>
        /\ last'.res = "ok"
        /\ isReady'
        /\ UNCHANGED <<cache, byteSize>> ]_vars

\* a start has just returned with an entry in the store
C11_Witness ==
    /\ last.op = "start"
    /\ StoredKeys(cache.segments) # {}
    /\ byteSize > 0

\* C12: after stop the counter is 0 and the store is gone; the start that
\* follows leaves an empty store and a counter of 0, so that get on any key
\* returns no value and a set of an entry within the budget succeeds
C12_StopDiscards ==
    /\ [](last.op = "stop" => (cache = CacheNull /\ byteSize = 0))
    /\ [][ (last.op = "stop" /\ last'.op = "start") =>
            (cache' = EmptyCache /\ byteSize' = 0) ]_vars
    /\ [][ (last.op = "start" /\ cache = EmptyCache /\ last'.op = "get") =>
            last'.res = "null" ]_vars
    /\ [][ (last.op = "start" /\ cache = EmptyCache /\ last'.op = "set") =>
            \A value \in Values, ttl \in Ttls, d1 \in {0, 1}, d2 \in {0, 1} :
              ( /\ now' = now + d1 + d2
                /\ Storable(value, ttl)
                /\ settings.maxByteSize > 0
                /\ NewEntry(last'.key, value, ttl).byteSize <= settings.maxByteSize
                /\ set(last'.key, value, ttl, d1, d2) )
              => (last'.res = "ok" /\ byteSize' = NewEntry(last'.key, value, ttl).byteSize) ]_vars

\* a stop has just discarded a store that held entries
C12_Witness ==
    /\ last.op = "stop" /\ last.freed = 1
    /\ cache.null /\ byteSize = 0

\* the bytes the entry under a key accounts for, 0 when the key has none
ByteSizeAt(segments, key) ==
    IF HasEntry(segments, key) THEN EntryOf(segments, key).byteSize ELSE 0

\* C13: drop while started succeeds; an entry under the key, expired or not,
\* is removed and the counter goes down by exactly its byteSize; with no
\* entry under the key the store and the counter stay as they are, so a
\* second drop of the same key changes nothing
C13_DropRemovesAndSubtracts ==
    [][ (Started /\ last'.op = "drop" /\ drop(last'.key)) =>
        /\ last'.res = "ok"
        /\ ~HasEntry(cache'.segments, last'.key)
        /\ byteSize' = byteSize - ByteSizeAt(cache.segments, last'.key)
        /\ \A k \in Keys \ {last'.key} :
              /\ HasEntry(cache'.segments, k) = HasEntry(cache.segments, k)
              /\ HasEntry(cache.segments, k) =>
                    EntryOf(cache'.segments, k) = EntryOf(cache.segments, k)
        /\ ~HasEntry(cache.segments, last'.key) => UNCHANGED <<cache, byteSize>>
        /\ LET once == dropKey(cache'.segments, byteSize', last'.key)
           IN  once.segments = cache'.segments /\ once.byteSize = byteSize' ]_vars

\* a drop has just removed an entry while the other key keeps its own
C13_Witness ==
    /\ last.op = "drop" /\ last.res = "ok" /\ last.freed > 0
    /\ ~HasEntry(cache.segments, last.key)
    /\ StoredKeys(cache.segments) # {}

\* C14: get while started on a key with no entry answers with no value and
\* no error and changes neither the store nor the counter; get on an entry
\* whose expiry lies ahead changes neither as well
C14_GetMissChangesNothing ==
    [][ (Started /\ last'.op = "get" /\ get(last'.key)) =>
        /\ ~HasEntry(cache.segments, last'.key) =>
              /\ last'.res = "null" /\ last'.err = ""
              /\ UNCHANGED <<cache, byteSize>>
        /\ ( /\ HasEntry(cache.segments, last'.key)
             /\ ClockBeforeExpire(now, EntryOf(cache.segments, last'.key)) ) =>
              /\ last'.res # "null"
              /\ UNCHANGED <<cache, byteSize>> ]_vars

\* a get has just missed on a key whose segment was never written, while the
\* other segment holds an entry
C14_Witness ==
    /\ Started /\ last.op = "get" /\ last.res = "null" /\ last.freed = 0
    /\ ~HasSegment(cache.segments, last.key.segment)
    /\ StoredKeys(cache.segments) # {}

\* the ttl arguments 2^31 and 2^31 - 1
TtlTooLarge == [ms |-> MaxTtl, extra |-> 1]
TtlLargest == [ms |-> MaxTtl, extra |-> 0]

\* C15: a set with ttl = 2^31 fails with the invalid-ttl error while started,
\* whatever the value, and with the not-started error while stopped, and
\* changes neither the store nor the counter; a set with ttl = 2^31 - 1 never
\* fails with the invalid-ttl error
C15_TtlGuard ==
    [][ last'.op = "set" =>
        /\ now' = now =>
              \A value \in Values :
                set(last'.key, value, TtlTooLarge, 0, 0) =>
                  /\ last'.res = "error"
                  /\ last'.err = IF Started THEN InvalidTtl ELSE NotStarted
                  /\ UNCHANGED <<cache, byteSize>>
        /\ last'.err = InvalidTtl =>
              \A value \in Values, d1 \in {0, 1}, d2 \in {0, 1} :
                ~set(last'.key, value, TtlLargest, d1, d2) ]_vars

\* a set has just been refused for its ttl while an entry stored with
\* ttl = 2^31 - 1 sits in the store
C15_Witness ==
    /\ last.op = "set" /\ last.err = InvalidTtl
    /\ \E k \in StoredKeys(cache.segments) : EntryOf(cache.segments, k).ttl = MaxTtl

\* what the counter holds beyond the bytes of the entries in the store
Surplus(segments, bs) == bs - BytesOf(segments, Keys)

\* C16: a successful set on a key whose entry is in the store with its expiry
\* reached adds nothing but the new entry to the counter once a sweep has
\* run: after the set and a sweep at any later clock, the counter holds no
\* more beyond the stored entries than it did before the set
C16_OverwrittenBytesReclaimed ==
    [][ ( /\ Started /\ last'.op = "set" /\ last'.res = "ok"
          /\ HasEntry(cache.segments, last'.key)
          /\ ~ClockBeforeExpire(now, EntryOf(cache.segments, last'.key)) ) =>
        \A t \in now' .. MaxTime :
          LET f == flushExpiredCacheItems(cache'.segments, byteSize', t)
          IN  Surplus(f.segments, f.byteSize) = Surplus(cache.segments, byteSize) ]_vars

\* the keys whose stored entry has expireTime <= t
ExpiryReached(segments, t) ==
    { k \in Keys : HasEntry(segments, k) /\ ~ClockBeforeExpire(t, EntryOf(segments, k)) }

\* C17: when a set gives up after its sweep, no entry with expireTime <= now
\* is left in the store, the counter that entered the sweep has gone down by
\* exactly the bytes of the removed entries, and every entry with
\* expireTime > now is still there unchanged
C17_SweepRunsToCompletion ==
    [][ ( /\ Started /\ last'.op = "set" /\ last'.err = LimitReached
          /\ \E value \in Values, ttl \in Ttls, d1 \in {0, 1}, d2 \in {0, 1} :
                set(last'.key, value, ttl, d1, d2) ) =>
        /\ ExpiryReached(cache'.segments, now') = {}
        /\ \E t1 \in now .. now' :
              byteSize' = AfterReplaced(cache.segments, byteSize, last'.key, t1)
                            - BytesOf(cache.segments, Removed)
        /\ \A k \in Keys \ ExpiryReached(cache.segments, now') :
              HasEntry(cache.segments, k) =>
                /\ HasEntry(cache'.segments, k)
                /\ EntryOf(cache'.segments, k) = EntryOf(cache.segments, k) ]_vars

\* C18: the passage of time changes neither the store nor the counter; get
\* and drop leave the entries under the other keys as they are; set, stored
\* or refused, leaves every entry under another key whose expiry lies ahead
\* in the store, unchanged
C18_EvictionOnDemand ==
    /\ [][ Tick => UNCHANGED <<cache, byteSize>> ]_vars
    /\ [][ (Started /\ (get(last'.key) \/ drop(last'.key))) =>
            \A k \in Keys \ {last'.key} :
              /\ HasEntry(cache'.segments, k) = HasEntry(cache.segments, k)
              /\ HasEntry(cache.segments, k) =>
                    EntryOf(cache'.segments, k) = EntryOf(cache.segments, k) ]_vars
    /\ [][ (Started /\ last'.op = "set") =>
            \A k \in Keys \ {last'.key} :
              ( /\ HasEntry(cache.segments, k)
                /\ ClockBeforeExpire(now', EntryOf(cache.segments, k)) ) =>
                  /\ HasEntry(cache'.segments, k)
                  /\ EntryOf(cache'.segments, k) = EntryOf(cache.segments, k) ]_vars

\* a set has just given up after its sweep, and the entry under the other
\* key, whose expiry lies ahead, is in the store
C18_Witness ==
    /\ last.op = "set" /\ last.err = LimitReached
    /\ \E k \in Keys \ {last.key} :
          /\ HasEntry(cache.segments, k)
          /\ ClockBeforeExpire(now, EntryOf(cache.segments, k))

\* C20: once start has run, the counter is never negative
C20_CounterNeverNegative ==
    byteSizeDefined => byteSize >= 0

\* the variables of the Connection and of the clock
engine == <<settings, cache, byteSize, byteSizeDefined, now, lifecycle, last>>

\* the functions pending for call c among those of the set p
PendingFor(p, c) == { thunk \in p : thunk.call = c }

\* C19: a call has made all its changes when it returns, and its callback is
\* invoked exactly once, after the call: the step of a call invokes no
\* callback and leaves one function pending for it, the turns that invoke
\* callbacks change nothing of the Connection, every call has either one
\* function pending and no invocation or no function pending and one
\* invocation, and every callback is invoked in the end
C19_DeferredCallbacks ==
    /\ [](\A c \in 1 .. calls : fired[c] + Cardinality(PendingFor(pending, c)) = 1)
    /\ [][ calls' # calls =>
            /\ calls' = calls + 1
            /\ fired'[calls'] = 0
            /\ Cardinality(PendingFor(pending', calls')) = 1
            /\ \A c \in 1 .. calls :
                  /\ fired'[c] = fired[c]
                  /\ PendingFor(pending', c) = PendingFor(pending, c) ]_vars
    /\ [][ (calls' = calls /\ <<pending, fired>>' # <<pending, fired>>) =>
            UNCHANGED engine ]_vars
    /\ \A c \in 1 .. MaxCalls : (calls >= c) ~> (calls >= c /\ fired[c] = 1)

\* three calls were issued back to back: the callback of the second has been
\* invoked before that of the first, and the third, a get that removed an
\* expired entry, has its callback two turns away
C19_Witness ==
    /\ calls = 3
    /\ fired[1] = 0 /\ fired[2] = 1
    /\ \E thunk \in PendingFor(pending, 3) : thunk.hops = 2
    /\ last.op = "get" /\ last.freed > 0
====
